---- MODULE Spec2Model ----
(***************************************************************************)
(* Model of eval.py: the checkpoint evaluation pipeline.                   *)
(*                                                                         *)
(* A text (Python str) is a sequence of one-character strings.  Cyrillic   *)
(* letters are written with Latin stand-ins ("Pryvit" for the Ukrainian    *)
(* greeting of the spec's scenario).  A csv file is the sequence of the    *)
(* records handed to csv.DictWriter (writeheader / writerow).              *)
(* The tokenizer, the adapter library and the generation engine are        *)
(* external: a token sequence returned by generate() is represented by the *)
(* text tokenizer.decode() gives for it.                                   *)
(***************************************************************************)
EXTENDS Integers, Sequences, FiniteSets, TLC

(***************************************************************************)
(* Bounds of the model.                                                    *)
(***************************************************************************)
MaxRuns == 2        \* process invocations with the same command line
MaxExamples == 2    \* rows of the benchmark table
MaxSeqs == 2        \* sequences one generate() call returns
MaxInvalid == 1     \* markerless sequences the engine returns in one run
MaxPieces == 3      \* pieces a decoded text is assembled from (ExtractSpec)
MaxSrcPieces == 2   \* pieces a source sentence is assembled from (RoundTripSpec)

(***************************************************************************)
(* Python str operations, computed as CPython computes them.               *)
(***************************************************************************)
\* s[i:] (0-based i), as a sequence
Drop(s, n) == SubSeq(s, n + 1, Len(s))

\* s.startswith(p)
StartsWith(s, p) == Len(p) <= Len(s) /\ SubSeq(s, 1, Len(p)) = p

\* s.find(p): the 1-based index of the first occurrence of p in s, 0 if none
RECURSIVE FindFrom(_, _, _)
FindFrom(s, p, i) ==
    IF i + Len(p) - 1 > Len(s) THEN 0
    ELSE IF SubSeq(s, i, i + Len(p) - 1) = p THEN i
    ELSE FindFrom(s, p, i + 1)

Find(s, p) == FindFrom(s, p, 1)

\* p in s
Contains(s, p) == Find(s, p) # 0

\* s.split(p, 1) when p occurs in s: the two parts around the first occurrence
Split1(s, p) ==
    LET i == Find(s, p)
    IN  << SubSeq(s, 1, i - 1), Drop(s, i + Len(p) - 1) >>

\* s.replace(old, new): left to right, non-overlapping, one pass (old # "")
RECURSIVE PyReplace(_, _, _)
PyReplace(s, old, new) ==
    IF Len(s) < Len(old) THEN s
    ELSE IF StartsWith(s, old) THEN new \o PyReplace(Drop(s, Len(old)), old, new)
    ELSE << Head(s) >> \o PyReplace(Tail(s), old, new)

Whitespace == {" ", "\n", "\t", "\r"}

RECURSIVE LStrip(_)
LStrip(s) == IF s # << >> /\ Head(s) \in Whitespace THEN LStrip(Tail(s)) ELSE s

RECURSIVE RStrip(_)
RStrip(s) ==
    IF s # << >> /\ s[Len(s)] \in Whitespace THEN RStrip(SubSeq(s, 1, Len(s) - 1))
    ELSE s

\* s.strip()
Strip(s) == RStrip(LStrip(s))

(***************************************************************************)
(* Literals of eval.py.                                                    *)
(***************************************************************************)
INST_OPEN == << "[", "I", "N", "S", "T", "]" >>
INST_CLOSE == << "[", "/", "I", "N", "S", "T", "]" >>
BOS == << "<", "s", ">" >>
EOS == << "<", "/", "s", ">" >>

\* generate_prompt(instruction): f"[INST] {instruction} [/INST]"
generate_prompt(instruction) ==
    INST_OPEN \o << " " >> \o instruction \o << " " >> \o INST_CLOSE

\* The hypothesis computed from one decoded sequence (lines 120-127).
Extract(output) ==
    IF Contains(output, INST_CLOSE)
    THEN Strip(PyReplace(PyReplace(Split1(output, INST_CLOSE)[2], BOS, << >>),
                         EOS, << >>))
    ELSE << >>

\* Whether the else branch (logger.warning) is taken for a decoded sequence.
IsInvalidResponse(output) == ~Contains(output, INST_CLOSE)

(***************************************************************************)
(* Inputs: the command line, the benchmark file, the engine.               *)
(***************************************************************************)
Digit(k) == << "0", "1", "2", "3", "4", "5", "6", "7", "8", "9" >>[k + 1]

\* --output-dir default (line 27)
OutputDir == << "e", "v", "a", "l" >>

Greedy == << "g", "r", "e", "e", "d", "y" >>
Beam10 == << "b", "e", "a", "m", "1", "0" >>
Beam15 == << "b", "e", "a", "m", "1", "5" >>
Beam25 == << "b", "e", "a", "m", "2", "5" >>
Beam5 == << "b", "e", "a", "m", "5" >>

\* choices= of --preset (line 30)
PresetChoices == { Greedy, Beam25, Beam15, Beam10 }

\* Checkpoint identifiers given on the command line.
CkptA == << "a", "/", "b" >>
CkptB == << "a", "-", "b" >>
CkptC == << "c" >>

\* args.checkpoints when --checkpoints is not given (nargs="*", no default):
\* Python's None, a value that is no list of identifiers.
None == << << "None" >> >>

\* Required columns of the benchmark table (lines 52, 58-60)
ColId == "id"
ColEng == "sentence_eng_Latn"
ColUkr == "sentence_ukr_Cyrl"
Columns == { ColId, ColEng, ColUkr }

\* The k-th row of the benchmark table; row 1 is the spec's scenario
\* {id "1", source "Hello", reference "Pryvit"}.
BenchmarkRow(k) ==
    IF k = 1
    THEN [ c \in Columns |->
             IF c = ColId THEN << "1" >>
             ELSE IF c = ColEng THEN << "H", "e", "l", "l", "o" >>
             ELSE << "P", "r", "y", "v", "i", "t" >> ]
    ELSE [ c \in Columns |->
             IF c = ColId THEN << Digit(k) >>
             ELSE IF c = ColEng THEN << "E", Digit(k) >>
             ELSE << "U", Digit(k) >> ]

\* What csv.DictReader yields for row k of a table whose header is cols.
DictRow(cols, k) == [ c \in cols |-> BenchmarkRow(k)[c] ]

VARIABLES
    argv,          \* [checkpoints, preset]: the command line, same for every run
    dsfile,        \* [readable, cols, nrows]: the file at args.dataset
    engine,        \* [nseq]: sequences the engine returns per generate() call
    files,         \* output directory: path -> sequence of csv records
    run,           \* number of the current process invocation
    pc,            \* position of the process in __main__
    exitCode,      \* exit status of the process once pc = "exit"
    dataset,       \* the list built in lines 48-64
    model,         \* the object bound to `model` (line 67), Unloaded before
    peft_model,    \* what `peft_model` refers to
    ci,            \* index of `checkpoint` in args.checkpoints
    ei,            \* index of `example` in dataset
    seqs,          \* generation_output.sequences still to be processed
    beams,         \* `beams` (lines 97-103)
    fp_out,        \* path of the open output file, Closed when none is open
    warnings,      \* logger.warning records of this run
    status,        \* per checkpoint index: the spec's state of that checkpoint
    seen,          \* per checkpoint index: what os.path.exists found when reached
    ops,           \* per checkpoint index: calls made for it in this run
    returned,      \* path -> the sequences the engine returned while it was written
    doneTables,    \* path -> content and run when its checkpoint reached DONE
    partialTables, \* path -> content and run when its checkpoint was aborted
    invalidLeft,   \* markerless sequences the engine may still return
    failure,       \* the call that raised in this run, "none" if none
    onDevice,      \* the model objects resident on the accelerator
    specFailed     \* per checkpoint index: the last run whose specialization raised

vars == << argv, dsfile, engine, files, run, pc, exitCode, dataset, model,
           peft_model, ci, ei, seqs, beams, fp_out, warnings, status, seen,
           ops, returned, doneTables, partialTables, invalidLeft, failure,
           onDevice, specFailed >>

inputs == << argv, dsfile, engine >>

EmptyMap == [ p \in {} |-> << >> ]

\* f with key k bound to v (dict assignment / file creation)
Put(f, k, v) == [ x \in DOMAIN f \cup {k} |-> IF x = k THEN v ELSE f[x] ]

\* fp_out when no output file is open
Closed == << >>

\* seen[i]: not reached yet / reached with no file / reached with a file
Unreached == [ reached |-> FALSE, existed |-> FALSE, content |-> << >> ]
NoFile == [ reached |-> TRUE, existed |-> FALSE, content |-> << >> ]
Found(content) == [ reached |-> TRUE, existed |-> TRUE, content |-> content ]

\* checkpoint.replace("/", "-") (line 76)
Slug(checkpoint) == PyReplace(checkpoint, << "/" >>, << "-" >>)

\* f"{args.output_dir}/{checkpoint_slug}.{args.preset}.csv" (line 77)
OutputFile(output_dir, checkpoint, preset) ==
    output_dir \o << "/" >> \o Slug(checkpoint) \o << "." >> \o preset
        \o << ".", "c", "s", "v" >>

\* Mutants of Exists: the file is looked up under another directory; only a
\* file that holds something counts; only a file with a row for every example
\* counts.
ExistsInOtherDir(path) == (<< ".", "/" >> \o path) \in DOMAIN files
ExistsNonEmpty(path) == path \in DOMAIN files /\ files[path] # << >>
ExistsComplete(path) == path \in DOMAIN files /\ Len(files[path]) > Len(dataset)

\* Mutant of Exists: the file is looked up under the checkpoint identifier
\* instead of its slug.
ExistsUnslugged(path) == PyReplace(path, << "-" >>, << "/" >>) \in DOMAIN files

\* os.path.exists(output_file) (line 79)
Exists(path) == path \in DOMAIN files

\* What is at path in the output directory (recorded in seen).
Probe(path) == IF path \in DOMAIN files THEN Found(files[path]) ELSE NoFile

Checkpoints == argv.checkpoints
NCheckpoints == IF Checkpoints = None THEN 0 ELSE Len(Checkpoints)
PathOf(i) == OutputFile(OutputDir, Checkpoints[i], argv.preset)
CurPath == PathOf(ci)

\* fieldnames of the DictWriter (line 93) and the record writeheader() writes
Header == [ id |-> << "i", "d" >>,
            source |-> << "s", "o", "u", "r", "c", "e" >>,
            reference |-> << "r", "e", "f", "e", "r", "e", "n", "c", "e" >>,
            hypothesis |-> << "h", "y", "p", "o", "t", "h", "e", "s", "i", "s" >> ]

\* The model right after AutoModelForCausalLM.from_pretrained (lines 67-70).
PristineBase ==
    [ merged |-> << >>, adapter |-> << >>, dtype |-> "float32", device |-> "cpu" ]

\* `model` before line 67
Unloaded ==
    [ merged |-> << >>, adapter |-> << >>, dtype |-> "unloaded", device |-> "unloaded" ]

\* Mutant of Beams: the beam15 branch carries the value of the beam25 branch.
BeamsCopyPasted(preset) ==
    IF preset = Beam25 THEN 25
    ELSE IF preset = Beam15 THEN 25
    ELSE IF preset = Beam10 THEN 10
    ELSE 1

\* beams (lines 97-103)
Beams(preset) ==
    IF preset = Beam25 THEN 25
    ELSE IF preset = Beam15 THEN 15
    ELSE IF preset = Beam10 THEN 10
    ELSE 1

ZeroOps == [ spec |-> 0, gen |-> 0, writes |-> 0 ]
Count(i, what) == [ ops EXCEPT ![i][what] = @ + 1 ]

(***************************************************************************)
(* The engine: generate() followed by tokenizer.decode().  A sequence that *)
(* follows the template echoes the prompt and then gives an answer; one    *)
(* that does not is cut before the closing marker.                         *)
(***************************************************************************)
ValidText(example, k) ==
    BOS \o example.prompt
        \o (IF k = 1 THEN example.trans ELSE << " " >> \o example.trans \o << Digit(k) >>)
        \o EOS

InvalidText(example, k) ==
    BOS \o INST_OPEN \o << " " >> \o example.orig \o << Digit(k) >>

EngineOutputs(example, nseq, budget) ==
    { [ k \in 1..nseq |-> IF k \in B THEN InvalidText(example, k)
                                     ELSE ValidText(example, k) ] :
        B \in { X \in SUBSET (1..nseq) : Cardinality(X) <= budget } }

NumInvalid(sequences) ==
    Cardinality({ k \in 1..Len(sequences) : IsInvalidResponse(sequences[k]) })

(***************************************************************************)
(* Initial states: a command line, a benchmark file, an engine and an      *)
(* output directory that may already hold a table.                         *)
(***************************************************************************)
CheckpointLists ==
    { None, << >>, << CkptA >>, << CkptA, CkptA >>, << CkptA, CkptB >>,
      << CkptA, CkptC >> }

\* Every list with the default preset, every preset (and one that is not a
\* choice) with a list of one checkpoint and with no list.
CommandLines ==
    { a \in [ checkpoints : CheckpointLists, preset : PresetChoices \cup { Beam5 } ] :
        a.preset = Greedy \/ a.checkpoints \in { None, << CkptA >> } }

\* Contents a file found in the output directory may have.
PreContents ==
    { << >>, << Header >>,
      << Header, [ id |-> << "1" >>, source |-> << "x" >>, reference |-> << "y" >>,
                   hypothesis |-> << "z" >> ] >> }

InitFiles(a) ==
    { EmptyMap } \cup
    ( IF a.checkpoints = None \/ a.checkpoints = << >> THEN {}
      ELSE { Put(EmptyMap, OutputFile(OutputDir, a.checkpoints[1], a.preset), c) :
               c \in PreContents } )

ProcessStart ==
    /\ pc = "parse"
    /\ exitCode = -1
    /\ dataset = << >>
    /\ model = Unloaded
    /\ peft_model = "unbound"
    /\ ci = 1
    /\ ei = 1
    /\ seqs = << >>
    /\ beams = 0
    /\ fp_out = Closed
    /\ warnings = << >>
    /\ status = [ i \in 1..NCheckpoints |-> "PENDING" ]
    /\ seen = [ i \in 1..NCheckpoints |-> Unreached ]
    /\ ops = [ i \in 1..NCheckpoints |-> ZeroOps ]
    /\ invalidLeft = MaxInvalid
    /\ failure = "none"
    /\ onDevice = {}

Init ==
    /\ argv \in CommandLines
    /\ dsfile \in [ readable : BOOLEAN, cols : SUBSET Columns, nrows : 0..MaxExamples ]
    /\ engine \in [ nseq : 1..MaxSeqs ]
    /\ files \in InitFiles(argv)
    /\ run = 1
    /\ returned = EmptyMap
    /\ doneTables = EmptyMap
    /\ partialTables = EmptyMap
    /\ specFailed = [ i \in 1..NCheckpoints |-> 0 ]
    /\ ProcessStart

(***************************************************************************)
(* The process ends: sys.exit / uncaught exception / end of the script.    *)
(***************************************************************************)
\* Mutant of Exit: the exception is swallowed and the status is 0.
ExitAlwaysZero(code, why) ==
    /\ pc' = "exit"
    /\ exitCode' = 0
    /\ failure' = why

Exit(code, why) ==
    /\ pc' = "exit"
    /\ exitCode' = code
    /\ failure' = why

\* parser.parse_args() (lines 24-33): an unknown --preset is a usage error.
ParseArgs ==
    /\ pc = "parse"
    /\ IF argv.preset \in PresetChoices
       THEN pc' = "count" /\ UNCHANGED << exitCode, failure >>
       ELSE Exit(2, "usage")
    /\ UNCHANGED << inputs, onDevice, specFailed, files, run, dataset, model, peft_model, ci, ei, seqs,
                    beams, fp_out, warnings, status, seen, ops, returned,
                    doneTables, partialTables, invalidLeft >>

\* len(args.checkpoints) (line 35): TypeError when --checkpoints was not given.
LogCheckpointCount ==
    /\ pc = "count"
    /\ IF Checkpoints = None
       THEN Exit(1, "count")
       ELSE pc' = "tokenizer" /\ UNCHANGED << exitCode, failure >>
    /\ UNCHANGED << inputs, onDevice, specFailed, files, run, dataset, model, peft_model, ci, ei, seqs,
                    beams, fp_out, warnings, status, seen, ops, returned,
                    doneTables, partialTables, invalidLeft >>

\* AutoTokenizer.from_pretrained (lines 37-45)
LoadTokenizer ==
    /\ pc = "tokenizer"
    /\ pc' = "dataset"
    /\ UNCHANGED << inputs, onDevice, specFailed, files, run, exitCode, dataset, model, peft_model, ci, ei,
                    seqs, beams, fp_out, warnings, status, seen, ops, returned,
                    doneTables, partialTables, invalidLeft, failure >>

LoadTokenizerRaises ==
    /\ pc = "tokenizer"
    /\ Exit(1, "tokenizer")
    /\ UNCHANGED << inputs, onDevice, specFailed, files, run, dataset, model, peft_model, ci, ei, seqs,
                    beams, fp_out, warnings, status, seen, ops, returned,
                    doneTables, partialTables, invalidLeft >>

\* One iteration of the reader loop (lines 51-64) on row d.
Example(d) ==
    [ id |-> d[ColId],
      orig |-> d[ColEng],
      trans |-> d[ColUkr],
      prompt |-> generate_prompt(d[ColEng]) ]

\* Lines 47-66.  open() raises when the file cannot be read; d[...] raises
\* KeyError on the first row when a column is missing.
DatasetLoadRaises ==
    \/ ~dsfile.readable
    \/ dsfile.nrows > 0 /\ ~(Columns \subseteq dsfile.cols)

LoadDataset ==
    /\ pc = "dataset"
    /\ ~DatasetLoadRaises
    /\ dataset' = [ k \in 1..dsfile.nrows |-> Example(DictRow(dsfile.cols, k)) ]
    /\ pc' = "basemodel"
    /\ UNCHANGED << inputs, onDevice, specFailed, files, run, exitCode, model, peft_model, ci, ei, seqs,
                    beams, fp_out, warnings, status, seen, ops, returned,
                    doneTables, partialTables, invalidLeft, failure >>

LoadDatasetRaises ==
    /\ pc = "dataset"
    /\ DatasetLoadRaises
    /\ Exit(1, "dataset")
    /\ UNCHANGED << inputs, onDevice, specFailed, files, run, dataset, model, peft_model, ci, ei, seqs,
                    beams, fp_out, warnings, status, seen, ops, returned,
                    doneTables, partialTables, invalidLeft >>

\* AutoModelForCausalLM.from_pretrained (lines 67-72)
LoadBaseModel ==
    /\ pc = "basemodel"
    /\ model' = PristineBase
    /\ pc' = "loop"
    /\ UNCHANGED << inputs, onDevice, specFailed, files, run, exitCode, dataset, peft_model, ci, ei, seqs,
                    beams, fp_out, warnings, status, seen, ops, returned,
                    doneTables, partialTables, invalidLeft, failure >>

LoadBaseModelRaises ==
    /\ pc = "basemodel"
    /\ Exit(1, "basemodel")
    /\ UNCHANGED << inputs, onDevice, specFailed, files, run, dataset, model, peft_model, ci, ei, seqs,
                    beams, fp_out, warnings, status, seen, ops, returned,
                    doneTables, partialTables, invalidLeft >>

(***************************************************************************)
(* The checkpoint loop (lines 74-137).                                     *)
(***************************************************************************)
\* Line 74 exhausted: the script ends.
Finish ==
    /\ pc = "loop"
    /\ ci > NCheckpoints
    /\ Exit(0, "none")
    /\ UNCHANGED << inputs, onDevice, specFailed, files, run, dataset, model, peft_model, ci, ei, seqs,
                    beams, fp_out, warnings, status, seen, ops, returned,
                    doneTables, partialTables, invalidLeft >>

\* Lines 75-81 when os.path.exists(output_file): log and continue.
SkipCheckpoint ==
    /\ pc = "loop"
    /\ ci <= NCheckpoints
    /\ Exists(CurPath)
    /\ status' = [ status EXCEPT ![ci] = "SKIPPED" ]
    /\ seen' = [ seen EXCEPT ![ci] = Probe(CurPath) ]
    /\ ci' = ci + 1
    /\ UNCHANGED << inputs, onDevice, specFailed, files, run, pc, exitCode, dataset, model, peft_model, ei,
                    seqs, beams, fp_out, warnings, ops, returned, doneTables,
                    partialTables, invalidLeft, failure >>

\* Lines 75-79 when the file does not exist: go on to line 83.
StartCheckpoint ==
    /\ pc = "loop"
    /\ ci <= NCheckpoints
    /\ ~Exists(CurPath)
    /\ status' = [ status EXCEPT ![ci] = "SPECIALIZING" ]
    /\ seen' = [ seen EXCEPT ![ci] = Probe(CurPath) ]
    /\ pc' = "adapter"
    /\ UNCHANGED << inputs, onDevice, specFailed, files, run, exitCode, dataset, model, peft_model, ci, ei,
                    seqs, beams, fp_out, warnings, ops, returned, doneTables,
                    partialTables, invalidLeft, failure >>

\* PeftModel.from_pretrained(model, checkpoint) (lines 83-87): the adapter
\* layers are injected into the modules of `model` itself; the result wraps it.
WithAdapter(m, checkpoint) == [ m EXCEPT !.adapter = checkpoint ]

LoadAdapter ==
    /\ pc = "adapter"
    /\ model' = WithAdapter(model, Checkpoints[ci])
    /\ peft_model' = "PeftModel(model)"
    /\ ops' = Count(ci, "spec")
    /\ pc' = "merge"
    /\ UNCHANGED << inputs, onDevice, specFailed, files, run, exitCode, dataset, ci, ei, seqs, beams,
                    fp_out, warnings, status, seen, returned, doneTables,
                    partialTables, invalidLeft, failure >>

\* Mutant of LoadAdapterRaises: the output file is opened before the adapter
\* is loaded.
LoadAdapterRaisesAfterOpen ==
    /\ pc = "adapter"
    /\ ops' = Count(ci, "spec")
    /\ specFailed' = [ specFailed EXCEPT ![ci] = run ]
    /\ files' = Put(files, CurPath, << >>)
    /\ Exit(1, "specialize")
    /\ UNCHANGED << inputs, onDevice, run, dataset, model, peft_model, ci, ei, seqs,
                    beams, fp_out, warnings, status, seen, returned, doneTables,
                    partialTables, invalidLeft >>

LoadAdapterRaises ==
    /\ pc = "adapter"
    /\ ops' = Count(ci, "spec")
    /\ specFailed' = [ specFailed EXCEPT ![ci] = run ]
    /\ Exit(1, "specialize")
    /\ UNCHANGED << inputs, onDevice, files, run, dataset, model, peft_model, ci, ei, seqs,
                    beams, fp_out, warnings, status, seen, returned, doneTables,
                    partialTables, invalidLeft >>

\* peft_model.merge_and_unload() (line 88): the adapter is added into the
\* weights of the wrapped model, which is what the call returns.
Merged(m) == [ m EXCEPT !.merged = Append(@, m.adapter), !.adapter = << >> ]

MergeAndUnload ==
    /\ pc = "merge"
    /\ model' = Merged(model)
    /\ peft_model' = "model"
    /\ pc' = "halfcuda"
    /\ UNCHANGED << inputs, onDevice, specFailed, files, run, exitCode, dataset, ci, ei, seqs, beams,
                    fp_out, warnings, status, seen, ops, returned, doneTables,
                    partialTables, invalidLeft, failure >>

\* peft_model.half().cuda() (line 89): both convert the module in place and
\* return it.
Half(m) == [ m EXCEPT !.dtype = "float16" ]
Cuda(m) == [ m EXCEPT !.device = "cuda" ]

\* The object a reference leads to: the one module built at lines 67-70, which
\* the PeftModel wraps (line 83) and merge_and_unload() returns (line 88).
ObjectOf(ref) == << "model", 0 >>

\* Mutant of Placed: a fresh copy of the module is moved to the device and the
\* ones moved before stay referenced.
PlacedFreshCopy(device, ref) == device \cup { << "model", Cardinality(device) + 1 >> }

\* The device memory after ref.cuda() (line 89): the object itself is moved.
Placed(device, ref) == device \cup { ObjectOf(ref) }

HalfCuda ==
    /\ pc = "halfcuda"
    /\ model' = Cuda(Half(model))
    /\ onDevice' = Placed(onDevice, peft_model)
    /\ pc' = "open"
    /\ UNCHANGED << inputs, specFailed, files, run, exitCode, dataset, peft_model, ci, ei, seqs,
                    beams, fp_out, warnings, status, seen, ops, returned,
                    doneTables, partialTables, invalidLeft, failure >>

\* .cuda() raises (no device, out of memory) after .half() was applied.
HalfCudaRaises ==
    /\ pc = "halfcuda"
    /\ model' = Half(model)
    /\ specFailed' = [ specFailed EXCEPT ![ci] = run ]
    /\ Exit(1, "specialize")
    /\ UNCHANGED << inputs, onDevice, files, run, dataset, peft_model, ci, ei, seqs, beams,
                    fp_out, warnings, status, seen, ops, returned, doneTables,
                    partialTables, invalidLeft >>

\* open(output_file, "w") (line 91): creates the file, or truncates it.
Opened(fs, path) == Put(fs, path, << >>)

OpenOutput ==
    /\ pc = "open"
    /\ files' = Opened(files, CurPath)
    /\ fp_out' = CurPath
    /\ returned' = Put(returned, CurPath, << >>)
    /\ status' = [ status EXCEPT ![ci] = "GENERATING" ]
    /\ ops' = Count(ci, "writes")
    /\ pc' = "header"
    /\ UNCHANGED << inputs, onDevice, specFailed, run, exitCode, dataset, model, peft_model, ci, ei, seqs,
                    beams, warnings, seen, doneTables, partialTables, invalidLeft,
                    failure >>

\* open() raises (the output directory is missing or not writable).
OpenOutputRaises ==
    /\ pc = "open"
    /\ Exit(1, "open")
    /\ UNCHANGED << inputs, onDevice, specFailed, files, run, dataset, model, peft_model, ci, ei, seqs,
                    beams, fp_out, warnings, status, seen, ops, returned,
                    doneTables, partialTables, invalidLeft >>

\* w.writeheader() / w.writerow(): one more record at the end of the file.
Written(fs, path, record) == [ fs EXCEPT ![path] = Append(@, record) ]

\* Mutant of WriteHeader: the DictWriter is made but writeheader() is not called.
WriteHeaderSkipped ==
    /\ pc = "header"
    /\ pc' = "beams"
    /\ UNCHANGED << inputs, onDevice, specFailed, files, ops, run, exitCode, dataset,
                    model, peft_model, ci, ei, seqs, beams, fp_out, warnings, status,
                    seen, returned, doneTables, partialTables, invalidLeft, failure >>

\* Lines 92-95
WriteHeader ==
    /\ pc = "header"
    /\ files' = Written(files, fp_out, Header)
    /\ ops' = Count(ci, "writes")
    /\ pc' = "beams"
    /\ UNCHANGED << inputs, onDevice, specFailed, run, exitCode, dataset, model, peft_model, ci, ei, seqs,
                    beams, fp_out, warnings, status, seen, returned, doneTables,
                    partialTables, invalidLeft, failure >>

\* Lines 97-103
SelectBeams ==
    /\ pc = "beams"
    /\ beams' = Beams(argv.preset)
    /\ ei' = 1
    /\ pc' = "example"
    /\ UNCHANGED << inputs, onDevice, specFailed, files, run, exitCode, dataset, model, peft_model, ci,
                    seqs, fp_out, warnings, status, seen, ops, returned,
                    doneTables, partialTables, invalidLeft, failure >>

\* What the engine is recorded to have returned for example e.
Returns(e, sequences, num_beams) ==
    [ k \in 1..Len(sequences) |->
        [ ex |-> e, text |-> sequences[k], num_beams |-> num_beams ] ]

\* peft_model.generate(...) (lines 106-116) returns.
Generate ==
    /\ pc = "example"
    /\ ei <= Len(dataset)
    /\ \E out \in EngineOutputs(dataset[ei], engine.nseq, invalidLeft) :
          /\ seqs' = out
          /\ invalidLeft' = invalidLeft - NumInvalid(out)
          /\ returned' = [ returned EXCEPT ![fp_out] = @ \o Returns(ei, out, beams) ]
    /\ ops' = Count(ci, "gen")
    /\ pc' = "sequence"
    /\ UNCHANGED << inputs, onDevice, specFailed, files, run, exitCode, dataset, model, peft_model, ci, ei,
                    beams, fp_out, warnings, status, seen, doneTables,
                    partialTables, failure >>

\* peft_model.generate(...) raises: the with block closes the file and the
\* exception leaves the script.
GenerateRaises ==
    /\ pc = "example"
    /\ ei <= Len(dataset)
    /\ ops' = Count(ci, "gen")
    /\ fp_out' = Closed
    /\ partialTables' = Put(partialTables, fp_out, [ content |-> files[fp_out], run |-> run ])
    /\ Exit(1, "generate")
    /\ UNCHANGED << inputs, onDevice, specFailed, files, run, dataset, model, peft_model, ci, ei, seqs,
                    beams, warnings, status, seen, returned, doneTables,
                    invalidLeft >>

\* Mutant of Row: source and reference exchanged.
RowSwapped(example, output) ==
    [ id |-> example.id, source |-> example.trans, reference |-> example.orig,
      hypothesis |-> output ]

\* The dict handed to w.writerow (lines 130-137).
Row(example, output) ==
    [ id |-> example.id, source |-> example.orig, reference |-> example.trans,
      hypothesis |-> output ]

\* Mutant of Warned: a warning for every sequence.
WarnedEverySequence(log, example, output) ==
    Append(log, [ id |-> example.id, output |-> output ])

\* logger.warning (lines 124-126) when the marker is missing.
Warned(log, example, output) ==
    IF IsInvalidResponse(output)
    THEN Append(log, [ id |-> example.id, output |-> output ])
    ELSE log

\* One iteration of the loop over generation_output.sequences (lines 118-137).
WriteRow ==
    /\ pc = "sequence"
    /\ seqs # << >>
    /\ warnings' = Warned(warnings, dataset[ei], Head(seqs))
    /\ files' = Written(files, fp_out, Row(dataset[ei], Extract(Head(seqs))))
    /\ ops' = Count(ci, "writes")
    /\ seqs' = Tail(seqs)
    /\ IF Tail(seqs) = << >>
       THEN ei' = ei + 1 /\ pc' = "example"
       ELSE UNCHANGED << ei, pc >>
    /\ UNCHANGED << inputs, onDevice, specFailed, run, exitCode, dataset, model, peft_model, ci, beams,
                    fp_out, status, seen, returned, doneTables, partialTables,
                    invalidLeft, failure >>

\* Line 105 exhausted: the with block closes the file; next checkpoint.
FinishCheckpoint ==
    /\ pc = "example"
    /\ ei > Len(dataset)
    /\ fp_out' = Closed
    /\ status' = [ status EXCEPT ![ci] = "DONE" ]
    /\ doneTables' = Put(doneTables, fp_out, [ content |-> files[fp_out], run |-> run ])
    /\ ci' = ci + 1
    /\ pc' = "loop"
    /\ UNCHANGED << inputs, onDevice, specFailed, files, run, exitCode, dataset, model, peft_model, ei,
                    seqs, beams, warnings, seen, ops, returned, partialTables,
                    invalidLeft, failure >>

\* The same command line is run again; only the output directory persists.
Rerun ==
    /\ pc = "exit"
    /\ run < MaxRuns
    /\ run' = run + 1
    /\ pc' = "parse"
    /\ exitCode' = -1
    /\ dataset' = << >>
    /\ model' = Unloaded
    /\ peft_model' = "unbound"
    /\ ci' = 1
    /\ ei' = 1
    /\ seqs' = << >>
    /\ beams' = 0
    /\ fp_out' = Closed
    /\ warnings' = << >>
    /\ status' = [ i \in 1..NCheckpoints |-> "PENDING" ]
    /\ seen' = [ i \in 1..NCheckpoints |-> Unreached ]
    /\ ops' = [ i \in 1..NCheckpoints |-> ZeroOps ]
    /\ invalidLeft' = MaxInvalid
    /\ failure' = "none"
    /\ onDevice' = {}
    /\ UNCHANGED << inputs, specFailed, files, returned, doneTables, partialTables >>

Step ==
    \/ ParseArgs
    \/ LogCheckpointCount
    \/ LoadTokenizer
    \/ LoadTokenizerRaises
    \/ LoadDataset
    \/ LoadDatasetRaises
    \/ LoadBaseModel
    \/ LoadBaseModelRaises
    \/ Finish
    \/ SkipCheckpoint
    \/ StartCheckpoint
    \/ LoadAdapter
    \/ LoadAdapterRaises
    \/ MergeAndUnload
    \/ HalfCuda
    \/ HalfCudaRaises
    \/ OpenOutput
    \/ OpenOutputRaises
    \/ WriteHeader
    \/ SelectBeams
    \/ Generate
    \/ GenerateRaises
    \/ WriteRow
    \/ FinishCheckpoint

Next == Step \/ Rerun

Spec == Init /\ [][Next]_vars

(***************************************************************************)
(* The response extraction on its own: the process is in the loop over     *)
(* generation_output.sequences (line 118) with one decoded sequence to     *)
(* process, which the engine is free to have made of any pieces.           *)
(***************************************************************************)
Pieces == { INST_CLOSE, BOS, EOS, << "<" >>, << "s", ">" >>, << " " >>, << "P" >> }

RECURSIVE Concat(_)
Concat(ps) == IF ps = << >> THEN << >> ELSE Head(ps) \o Concat(Tail(ps))

DecodedTexts ==
    { prefix \o Concat(ps) :
        prefix \in { << >>, BOS \o generate_prompt(BenchmarkRow(1)[ColEng]) },
        ps \in UNION { [ 1..n -> Pieces ] : n \in 0..MaxPieces } }

ExtractInit ==
    /\ argv = [ checkpoints |-> << CkptA >>, preset |-> Greedy ]
    /\ dsfile = [ readable |-> TRUE, cols |-> Columns, nrows |-> 1 ]
    /\ engine = [ nseq |-> 1 ]
    /\ run = 1
    /\ pc = "sequence"
    /\ exitCode = -1
    /\ dataset = << Example(DictRow(Columns, 1)) >>
    /\ model = Cuda(Half(Merged(WithAdapter(PristineBase, CkptA))))
    /\ peft_model = "model"
    /\ ci = 1
    /\ ei = 1
    /\ seqs \in { << t >> : t \in DecodedTexts }
    /\ beams = Beams(Greedy)
    /\ fp_out = OutputFile(OutputDir, CkptA, Greedy)
    /\ files = Put(EmptyMap, fp_out, << Header >>)
    /\ warnings = << >>
    /\ status = << "GENERATING" >>
    /\ seen = << NoFile >>
    /\ ops = << [ spec |-> 1, gen |-> 1, writes |-> 2 ] >>
    /\ returned = Put(EmptyMap, fp_out, Returns(1, seqs, beams))
    /\ doneTables = EmptyMap
    /\ partialTables = EmptyMap
    /\ invalidLeft = MaxInvalid
    /\ failure = "none"
    /\ onDevice = Placed({}, peft_model)
    /\ specFailed = << 0 >>

ExtractSpec == ExtractInit /\ [][WriteRow]_vars

(***************************************************************************)
(* Template and extraction together: the same point of the loop, with the  *)
(* one decoded sequence being the template applied to the example's source *)
(* sentence (line 12), between <s> and </s>, with the example's reference  *)
(* sentence as the answer generated after it.                              *)
(***************************************************************************)
SourcePieces == { INST_CLOSE, << "H" >>, << " " >> }
AnswerPieces == { BOS, EOS, << "P" >>, << " " >> }

SourceTexts ==
    { Concat(ps) : ps \in UNION { [ 1..n -> SourcePieces ] : n \in 0..MaxSrcPieces } }

AnswerTexts ==
    { Concat(ps) : ps \in UNION { [ 1..n -> AnswerPieces ] : n \in 0..MaxPieces } }

RoundTripInit ==
    /\ argv = [ checkpoints |-> << CkptA >>, preset |-> Greedy ]
    /\ dsfile = [ readable |-> TRUE, cols |-> Columns, nrows |-> 1 ]
    /\ engine = [ nseq |-> 1 ]
    /\ run = 1
    /\ pc = "sequence"
    /\ exitCode = -1
    /\ dataset \in { << Example([ c \in Columns |->
                                    IF c = ColId THEN << "1" >>
                                    ELSE IF c = ColEng THEN s ELSE a ]) >> :
                        s \in SourceTexts, a \in AnswerTexts }
    /\ model = Cuda(Half(Merged(WithAdapter(PristineBase, CkptA))))
    /\ peft_model = "model"
    /\ ci = 1
    /\ ei = 1
    /\ seqs = << ValidText(dataset[1], 1) >>
    /\ beams = Beams(Greedy)
    /\ fp_out = OutputFile(OutputDir, CkptA, Greedy)
    /\ files = Put(EmptyMap, fp_out, << Header >>)
    /\ warnings = << >>
    /\ status = << "GENERATING" >>
    /\ seen = << NoFile >>
    /\ ops = << [ spec |-> 1, gen |-> 1, writes |-> 2 ] >>
    /\ returned = Put(EmptyMap, fp_out, Returns(1, seqs, beams))
    /\ doneTables = EmptyMap
    /\ partialTables = EmptyMap
    /\ invalidLeft = MaxInvalid
    /\ failure = "none"
    /\ onDevice = Placed({}, peft_model)
    /\ specFailed = << 0 >>

RoundTripSpec == RoundTripInit /\ [][WriteRow]_vars

(***************************************************************************)
(* Properties.                                                             *)
(***************************************************************************)
Indices == 1..NCheckpoints

\* A generate() call is made in this step for a checkpoint whose table is p.
GenCallAt(p) == \E i \in Indices : ops'[i].gen > ops[i].gen /\ PathOf(i) = p

\* C1: once a checkpoint has reached DONE, no later step of this run or of a
\* later run with the same command line calls generate() for a checkpoint with
\* that table, and the table stays exactly as it was at DONE.
C1_IdempotentRerun ==
    [][ \A p \in DOMAIN doneTables :
            /\ files'[p] = doneTables[p].content
            /\ ~GenCallAt(p) ]_vars

C1_Witness ==
    /\ run > 1
    /\ pc = "exit"
    /\ exitCode = 0
    /\ \E i \in Indices :
          /\ status[i] = "SKIPPED"
          /\ PathOf(i) \in DOMAIN doneTables
          /\ doneTables[PathOf(i)].run < run
          /\ Len(files[PathOf(i)]) > 2

\* C2: a checkpoint reached while its output path exists is SKIPPED with no
\* specialization, no generation and no write, the file is left as found
\* whatever it holds, and the loop has moved on to the next checkpoint.
C2_SkipOnExistingTable ==
    \A i \in Indices :
        seen[i].existed =>
            /\ status[i] = "SKIPPED"
            /\ ops[i] = ZeroOps
            /\ files[PathOf(i)] = seen[i].content
            /\ ci > i

C2_Witness ==
    \E i \in Indices :
        /\ seen[i].existed
        /\ seen[i].content = << >>
        /\ i < NCheckpoints
        /\ status[i + 1] = "DONE"

\* C3: whenever the base model is passed to the specialization step
\* (PeftModel.from_pretrained), it is as load_base left it.
C3_BaseNeverMutated == pc = "adapter" => model = PristineBase

\* C4: the table of a checkpoint that reached DONE holds the header and then
\* exactly one row per sequence the engine returned, in the order returned,
\* examples in dataset order and none left out, each row carrying the id,
\* source and reference of the example it was generated for.
C4_RowInvariantAtDone ==
    \A i \in Indices :
        status[i] = "DONE" =>
            LET t == files[PathOf(i)]
                r == returned[PathOf(i)]
            IN  /\ Len(t) = 1 + Len(r)
                /\ t[1] = Header
                /\ \A k \in 1..Len(r) :
                      /\ t[k + 1].id = dataset[r[k].ex].id
                      /\ t[k + 1].source = dataset[r[k].ex].orig
                      /\ t[k + 1].reference = dataset[r[k].ex].trans
                      /\ t[k + 1].hypothesis = Extract(r[k].text)
                /\ \A k, l \in 1..Len(r) : k <= l => r[k].ex <= r[l].ex
                /\ { r[k].ex : k \in 1..Len(r) } = 1..Len(dataset)

C4_Witness ==
    \E i \in Indices :
        /\ status[i] = "DONE"
        /\ Len(dataset) = 2
        /\ engine.nseq = 2
        /\ Len(files[PathOf(i)]) = 5

\* C5: when generate() raises for checkpoint k, the tables finished before are
\* unchanged and the checkpoints after k are still attempted: when the process
\* has ended none of them is left PENDING.
C5_LaterCheckpointsAttempted ==
    (pc = "exit" /\ failure = "generate") =>
        /\ \A p \in DOMAIN doneTables : files[p] = doneTables[p].content
        /\ \A i \in Indices : i > ci => status[i] # "PENDING"

\* The process got past the dataset load (lines 47-66).
LoadSucceeded == failure \notin { "usage", "count", "tokenizer", "dataset" }

\* C6 (as claimed): the process ends non-zero if dataset loading fails or a
\* generation call raises, and zero whenever loading succeeded and no
\* generation call raised.
C6_ExitStatus ==
    pc = "exit" =>
        /\ failure \in { "dataset", "generate" } => exitCode # 0
        /\ (LoadSucceeded /\ failure # "generate") => exitCode = 0

\* An upper bound on the steps the process can still take: the variant of
\* the termination argument.
CheckpointSteps == 8 + dsfile.nrows * (1 + engine.nseq)

StepsLeft ==
    LET after == (NCheckpoints - ci) * CheckpointSteps + 1
        whole == NCheckpoints * CheckpointSteps + 1
    IN  CASE pc = "exit" -> 0
          [] pc = "parse" -> whole + 5
          [] pc = "count" -> whole + 4
          [] pc = "tokenizer" -> whole + 3
          [] pc = "dataset" -> whole + 2
          [] pc = "basemodel" -> whole + 1
          [] pc = "loop" -> (NCheckpoints - ci + 1) * CheckpointSteps + 1
          [] pc = "adapter" -> after + CheckpointSteps - 1
          [] pc = "merge" -> after + CheckpointSteps - 2
          [] pc = "halfcuda" -> after + CheckpointSteps - 3
          [] pc = "open" -> after + CheckpointSteps - 4
          [] pc = "header" -> after + CheckpointSteps - 5
          [] pc = "beams" -> after + CheckpointSteps - 6
          [] pc = "example" ->
                after + 1 + (dsfile.nrows - ei + 1) * (1 + engine.nseq)
          [] pc = "sequence" ->
                after + 1 + (dsfile.nrows - ei) * (1 + engine.nseq) + Len(seqs)

\* The process is never stuck before it has ended.  At "sequence" the one
\* action is WriteRow, which needs a sequence to process and nothing else.
CanStep ==
    IF pc = "sequence" THEN seqs # << >>
    ELSE pc # "exit" => ENABLED Step

\* C6 (amended): every run ends: until it has ended the process can take a
\* step and every step lowers StepsLeft, which is never negative.  It ends
\* non-zero if dataset loading or any other call raises (argument handling,
\* tokenizer or base-model load, specialization, opening the output file,
\* generation) and zero exactly when nothing raised, the run in which every
\* checkpoint is skipped included.
C6_ExitStatusAmended ==
    /\ [](pc = "exit" => (exitCode = 0 <=> failure = "none"))
    /\ [](StepsLeft >= 0 /\ CanStep)
    /\ [][pc # "exit" => StepsLeft' < StepsLeft]_vars

C6_Witness ==
    /\ pc = "exit"
    /\ exitCode = 0
    /\ NCheckpoints = 2
    /\ \A i \in Indices : status[i] = "SKIPPED"

\* C7: a checkpoint whose generation was aborted in an earlier run, and whose
\* partial file is still there, is SKIPPED when a later run reaches it; its
\* table stays as the abort left it, with fewer rows than the table of a DONE
\* checkpoint (header plus engine.nseq rows per example).
C7_ResumeHazard ==
    \A i \in Indices :
        LET p == PathOf(i)
        IN  ( /\ seen[i].reached
              /\ p \in DOMAIN partialTables
              /\ partialTables[p].run < run )
            => /\ status[i] = "SKIPPED"
               /\ files[p] = partialTables[p].content
               /\ Len(files[p]) < 1 + engine.nseq * Len(dataset)

C7_Witness ==
    \E i \in Indices :
        /\ status[i] = "SKIPPED"
        /\ PathOf(i) \in DOMAIN partialTables
        /\ partialTables[PathOf(i)].run < run
        /\ Len(files[PathOf(i)]) >= 2
        /\ pc = "exit"

\* b is a with some characters deleted.
RECURSIVE IsSubsequence(_, _)
IsSubsequence(a, b) ==
    IF a = << >> THEN TRUE
    ELSE IF b = << >> THEN FALSE
    ELSE IF Head(a) = Head(b) THEN IsSubsequence(Tail(a), Tail(b))
    ELSE IsSubsequence(a, Tail(b))

\* m occurs in t at position i.
OccursAt(t, m, i) == i + Len(m) - 1 <= Len(t) /\ SubSeq(t, i, i + Len(m) - 1) = m
Occurs(t, m) == \E i \in 1..Len(t) : OccursAt(t, m, i)

\* t without the whitespace around it.
Trimmed(t) ==
    LET inked == { k \in 1..Len(t) : t[k] \notin Whitespace }
    IN  IF inked = {} THEN << >>
        ELSE SubSeq(t, CHOOSE k \in inked : \A j \in inked : k <= j,
                       CHOOSE k \in inked : \A j \in inked : k >= j)

\* The text after the first occurrence of the marker.
AfterFirstMarker(t) ==
    LET i == CHOOSE k \in 1..Len(t) :
                 /\ OccursAt(t, INST_CLOSE, k)
                 /\ \A j \in 1..(k - 1) : ~OccursAt(t, INST_CLOSE, j)
    IN  SubSeq(t, i + Len(INST_CLOSE), Len(t))

\* C8: the hypothesis written for a decoded text that contains [/INST] is the
\* text after the first [/INST] with every literal <s> and </s> removed and
\* the surrounding whitespace trimmed: nothing but marker and whitespace
\* characters is taken out, no <s> or </s> is left in it, no whitespace is
\* left around it, and a text without markers is only trimmed.
C8_ExtractWithMarker ==
    \A p \in DOMAIN returned :
        ( /\ Len(returned[p]) = 1
          /\ Len(files[p]) = 2
          /\ Occurs(returned[p][1].text, INST_CLOSE) )
        => LET after == AfterFirstMarker(returned[p][1].text)
               hyp == files[p][2].hypothesis
           IN  /\ IsSubsequence(hyp, after)
               /\ ~Occurs(hyp, BOS)
               /\ ~Occurs(hyp, EOS)
               /\ hyp = Trimmed(hyp)
               /\ (~Occurs(after, BOS) /\ ~Occurs(after, EOS)) => hyp = Trimmed(after)

\* C9: processing a decoded sequence without the marker writes a row with an
\* empty hypothesis, logs exactly one warning, with the example's id, and goes
\* on with the next sequence or example; a sequence with the marker logs none.
C9_ExtractWithoutMarker ==
    [][ pc = "sequence" =>
          LET output == Head(seqs)
              t == files'[fp_out]
          IN  IF Find(output, INST_CLOSE) = 0
              THEN /\ Len(t) = Len(files[fp_out]) + 1
                   /\ t[Len(t)].hypothesis = << >>
                   /\ t[Len(t)].id = dataset[ei].id
                   /\ Len(warnings') = Len(warnings) + 1
                   /\ SubSeq(warnings', 1, Len(warnings)) = warnings
                   /\ warnings'[Len(warnings')].id = dataset[ei].id
                   /\ pc' \in { "sequence", "example" }
              ELSE warnings' = warnings ]_vars

C9_Witness ==
    \E i \in Indices :
        /\ status[i] = "DONE"
        /\ Len(warnings) = 1
        /\ \E k \in 2..Len(files[PathOf(i)]) :
              /\ files[PathOf(i)][k].hypothesis = << >>
              /\ files[PathOf(i)][k].id = warnings[1].id
        /\ \E k \in 2..Len(files[PathOf(i)]) :
              files[PathOf(i)][k].hypothesis # << >>

\* C10: a command line without --checkpoints, or with no identifier after it,
\* is rejected: the dataset is never loaded (so nothing after it happens) and
\* the process ends non-zero.
C10_CheckpointsRequired ==
    (Checkpoints = None \/ Checkpoints = << >>) =>
        /\ pc \in { "parse", "count", "tokenizer", "dataset", "exit" }
        /\ dataset = << >>
        /\ pc = "exit" => (exitCode # 0 /\ failure \in { "usage", "count" })

\* The preset names and the beam count each stands for.
PresetTable ==
    { << Greedy, 1 >>, << Beam10, 10 >>, << Beam15, 15 >>, << Beam25, 25 >> }

\* C11: the beam count handed to every generate() call, for every checkpoint
\* and example, is the one the run's preset stands for (greedy 1, beam10 10,
\* beam15 15, beam25 25); a preset that is none of the four is rejected by the
\* argument parser: the dataset is never loaded and the process ends non-zero.
C11_PresetBeams ==
    /\ \A p \in DOMAIN returned :
          \A k \in 1..Len(returned[p]) :
              << argv.preset, returned[p][k].num_beams >> \in PresetTable
    /\ pc \in { "example", "sequence" } => << argv.preset, beams >> \in PresetTable
    /\ (\A t \in PresetTable : t[1] # argv.preset) =>
          /\ pc \in { "parse", "exit" }
          /\ dataset = << >>
          /\ DOMAIN returned = {}
          /\ pc = "exit" => (exitCode # 0 /\ failure = "usage")

C11_Witness ==
    /\ argv.preset = Beam15
    /\ Len(dataset) = 2
    /\ status = << "DONE" >>
    /\ \E p \in DOMAIN returned :
          /\ Len(returned[p]) >= 2
          /\ \A k \in 1..Len(returned[p]) : returned[p][k].num_beams = 15

\* C12: a benchmark table that lacks a required column, whatever its number
\* of rows, never loads: the process does not get past the dataset load, it
\* ends non-zero, and no checkpoint is specialized, no generate() call is made
\* and no output file is opened.
C12_MissingColumnFatal ==
    ~(Columns \subseteq dsfile.cols) =>
        /\ pc \in { "parse", "count", "tokenizer", "dataset", "exit" }
        /\ pc = "exit" => exitCode # 0
        /\ \A i \in Indices : ops[i] = ZeroOps
        /\ fp_out = Closed

CreatedFiles == DOMAIN returned

\* C14: every file the pipeline has created holds the header exactly once, as
\* its first record, in every state from its creation on (a table left
\* partial by an aborted checkpoint included).
C14_HeaderOnceFirst ==
    \A p \in CreatedFiles :
        /\ Len(files[p]) >= 1
        /\ files[p][1] = Header
        /\ \A k \in 2..Len(files[p]) : files[p][k] # Header

\* C14 as amended: a created file is empty exactly between open() and
\* writeheader() and from then on, partial tables included, its first record
\* is the header; the header is written once, to the empty file, and every
\* later write appends one row behind it.
C14_HeaderOnceFirstAmended ==
    /\ [](\A p \in CreatedFiles :
            IF pc = "header" /\ fp_out = p
            THEN files[p] = << >>
            ELSE Len(files[p]) >= 1 /\ files[p][1] = Header)
    /\ [][ /\ \A p \in CreatedFiles' \ CreatedFiles : files'[p] = << >>
           /\ \A p \in CreatedFiles :
                 files'[p] # files[p] =>
                    IF files[p] = << >>
                    THEN pc = "header" /\ files'[p] = << Header >>
                    ELSE /\ pc = "sequence"
                         /\ files[p][1] = Header
                         /\ Len(files'[p]) = Len(files[p]) + 1
                         /\ SubSeq(files'[p], 1, Len(files[p])) = files[p] ]_vars

C14_Witness ==
    /\ pc = "exit"
    /\ failure = "generate"
    /\ \E p \in CreatedFiles :
          /\ p \in DOMAIN partialTables
          /\ Len(files[p]) >= 3
          /\ files[p][1] = Header

\* C15: for every source sentence s and answer a, the hypothesis written for
\* the decoded text <s> + template(s) + a + </s> is a with the surrounding
\* whitespace trimmed, and the text after the first [/INST] of it is a + </s>:
\* the marker found is the one the template put there.
C15_RoundTrip ==
    \A p \in DOMAIN returned :
        ( /\ Len(returned[p]) = 1
          /\ Len(files[p]) = 2
          /\ returned[p][1].text =
                BOS \o generate_prompt(dataset[1].orig) \o dataset[1].trans \o EOS )
        => /\ files[p][2].hypothesis = Trimmed(dataset[1].trans)
           /\ AfterFirstMarker(returned[p][1].text) = dataset[1].trans \o EOS

\* C16: when a first run that found the output directory empty has ended
\* without any call failing, every distinct identifier of the list has been
\* specialized once and generated once per example and has its own finished
\* table at its own path: no other identifier has the same output path.
C16_OneTablePerCheckpoint ==
    ( /\ run = 1
      /\ pc = "exit"
      /\ failure = "none"
      /\ DOMAIN files \subseteq CreatedFiles )
    => \A i \in Indices :
          (\A j \in 1..(i - 1) : Checkpoints[j] # Checkpoints[i]) =>
              /\ status[i] = "DONE"
              /\ ops[i].spec = 1
              /\ ops[i].gen = Len(dataset)
              /\ PathOf(i) \in DOMAIN doneTables
              /\ \A j \in Indices :
                    Checkpoints[j] # Checkpoints[i] => PathOf(j) # PathOf(i)

\* C17: in every step of every run, whatever the list, a path is opened for
\* writing only when no file exists there and it was never opened before; no
\* file is removed; and a file that changes is the open table of the
\* checkpoint that is GENERATING, which only grows: every other file is left
\* as it was.
C17_NeverOverwritten ==
    [][ /\ DOMAIN files \subseteq DOMAIN files'
        /\ (fp_out' # Closed /\ fp_out' # fp_out) =>
              /\ fp_out' = CurPath
              /\ fp_out' \notin DOMAIN files
              /\ fp_out' \notin CreatedFiles
        /\ \A p \in DOMAIN files' \ DOMAIN files : p = fp_out' /\ fp_out = Closed
        /\ \A p \in DOMAIN files :
              files'[p] # files[p] =>
                 /\ p = fp_out
                 /\ p = CurPath
                 /\ status[ci] = "GENERATING"
                 /\ Len(files'[p]) > Len(files[p])
                 /\ SubSeq(files'[p], 1, Len(files[p])) = files[p] ]_vars

C17_Witness ==
    /\ run = 2
    /\ pc = "exit"
    /\ Checkpoints = << CkptA, CkptB >>
    /\ status = << "SKIPPED", "SKIPPED" >>
    /\ PathOf(1) \in DOMAIN doneTables
    /\ doneTables[PathOf(1)].run = 1
    /\ Len(files[PathOf(1)]) >= 2
    /\ files[PathOf(1)] = doneTables[PathOf(1)].content

\* C18: an output file is open only for a checkpoint whose specialization has
\* completed in this run; when a specialization raises, the process ends with
\* no file at that checkpoint's output path; and a rerun that reaches the
\* checkpoint finds no file there and attempts it again instead of skipping.
C18_SpecFailureLeavesNoTable ==
    /\ fp_out # Closed =>
          /\ ops[ci].spec = 1
          /\ specFailed[ci] # run
          /\ model.adapter = << >>
          /\ model.merged # << >>
          /\ model.merged[Len(model.merged)] = Checkpoints[ci]
          /\ model.dtype = "float16"
          /\ model.device = "cuda"
    /\ \A i \in Indices :
          status[i] \in { "GENERATING", "DONE" } => (ops[i].spec = 1 /\ specFailed[i] # run)
    /\ (pc = "exit" /\ failure = "specialize") =>
          /\ specFailed[ci] = run
          /\ status[ci] = "SPECIALIZING"
          /\ CurPath \notin DOMAIN files
    /\ \A i \in Indices :
          (run > 1 /\ specFailed[i] = run - 1 /\ seen[i].reached) =>
              /\ ~seen[i].existed
              /\ status[i] \in { "SPECIALIZING", "GENERATING", "DONE" }

C18_Witness ==
    /\ run = 2
    /\ \E i \in Indices :
          /\ specFailed[i] = 1
          /\ status[i] = "DONE"
          /\ ops[i].spec = 1
          /\ PathOf(i) \in DOMAIN files

====
